---- MODULE Spec2Model ----
(***************************************************************************)
(* Inverse-depth reprojection factors InvDepthFactorVariant3a (one pose)   *)
(* and InvDepthFactorVariant3b (two poses) of                              *)
(* gtsam_unstable/slam/InvDepthFactorVariant3.h.                           *)
(*                                                                         *)
(* Numbers are exact rationals <<n, d>> (d > 0, lowest terms).  Angles are *)
(* measured in half turns, so that the finite-difference step Delta = 1/2  *)
(* moves an angle by a quarter turn, where cos and sin are exact.          *)
(***************************************************************************)
EXTENDS Integers, Sequences, FiniteSets, TLC

VARIABLES
    factors,    \* the factors constructed, a sequence of [variant, keys, measured, K]
    calib,      \* the heap of Cal3_S2 objects the factors' K_ pointers share
    built,      \* the constructor arguments, as given at construction
    values,     \* the caller's values of the variables, by key
    out,        \* the lines written to std::cout and not yet read from it
    last,       \* the call that has returned to the caller and what it returned
    kept,       \* an earlier call the caller has kept a copy of
    thr,        \* the evaluations in progress on concurrent threads
    cmp         \* the last equals comparison and its result

vars == <<factors, calib, built, values, out, last, kept, thr, cmp>>

(***************************************************************************)
(* Exact rational arithmetic (the model of double).                        *)
(***************************************************************************)
Abs(n) == IF n < 0 THEN -n ELSE n

RECURSIVE GCD(_, _)
GCD(a, b) == IF b = 0 THEN a ELSE GCD(b, a % b)

Rat(n, d) ==
    IF d = 1 THEN <<n, 1>>
    ELSE IF n = 0 THEN <<0, 1>>
    ELSE LET g == GCD(Abs(n), Abs(d))
             s == IF d < 0 THEN -1 ELSE 1
         IN  <<(s * n) \div g, (s * d) \div g>>

Num(n) == <<n, 1>>
Zero == Num(0)
RAdd(a, b) ==
    IF a[1] = 0 THEN b
    ELSE IF b[1] = 0 THEN a
    ELSE Rat(a[1] * b[2] + b[1] * a[2], a[2] * b[2])
RNeg(a) == <<-a[1], a[2]>>
RSub(a, b) == RAdd(a, RNeg(b))
RMul(a, b) == IF a[1] = 0 \/ b[1] = 0 THEN Zero ELSE Rat(a[1] * b[1], a[2] * b[2])
RDiv(a, b) == IF a[1] = 0 THEN Zero ELSE Rat(a[1] * b[2], a[2] * b[1])
RAbs(a) == <<Abs(a[1]), a[2]>>
RLess(a, b) == a[1] * b[2] < b[1] * a[2]
RLeq(a, b) == a[1] * b[2] <= b[1] * a[2]

\* cos and sin of an angle given in half turns; exact at quarter turns
Quarter(a) == ((2 * a[1]) \div a[2]) % 4
cos(a) == Num(<<1, 0, -1, 0>>[Quarter(a) + 1])
sin(a) == Num(<<0, 1, 0, -1>>[Quarter(a) + 1])

(***************************************************************************)
(* Point2, Point3, Rot3, Pose3, Cal3_S2, PinholeCamera (external types).   *)
(***************************************************************************)
Point3(x, y, z) == <<x, y, z>>
Point2(x, y) == <<x, y>>
Point2Sub(p, q) == <<RSub(p[1], q[1]), RSub(p[2], q[2])>>
Point3Add(p, q) == <<RAdd(p[1], q[1]), RAdd(p[2], q[2]), RAdd(p[3], q[3])>>
Point3Sub(p, q) == <<RSub(p[1], q[1]), RSub(p[2], q[2]), RSub(p[3], q[3])>>

\* a rotation is an integer matrix, given by its rows
RotI == <<<<1, 0, 0>>, <<0, 1, 0>>, <<0, 0, 1>>>>
RotAxis(j, s) ==
    CASE j = 1 -> <<<<1, 0, 0>>, <<0, 0, -s>>, <<0, s, 0>>>>
      [] j = 2 -> <<<<0, 0, s>>, <<0, 1, 0>>, <<-s, 0, 0>>>>
      [] j = 3 -> <<<<0, -s, 0>>, <<s, 0, 0>>, <<0, 0, 1>>>>
RotT(A) ==
    <<<<A[1][1], A[2][1], A[3][1]>>,
      <<A[1][2], A[2][2], A[3][2]>>,
      <<A[1][3], A[2][3], A[3][3]>>>>
Dot(a, b) == a[1] * b[1] + a[2] * b[2] + a[3] * b[3]
RotRow(a, Bt) == <<Dot(a, Bt[1]), Dot(a, Bt[2]), Dot(a, Bt[3])>>
RotMulT(A, Bt) == <<RotRow(A[1], Bt), RotRow(A[2], Bt), RotRow(A[3], Bt)>>
RotMul(A, B) == RotMulT(A, RotT(B))
RowTimes(a, p) ==
    RAdd(RAdd(RMul(Num(a[1]), p[1]), RMul(Num(a[2]), p[2])), RMul(Num(a[3]), p[3]))
Rotate(A, p) == <<RowTimes(A[1], p), RowTimes(A[2], p), RowTimes(A[3], p)>>

Pose3(R, t) == [R |-> R, t |-> t]
transform_from(pose, p) == Point3Add(Rotate(pose.R, p), pose.t)
transform_to(pose, p) == Rotate(RotT(pose.R), Point3Sub(p, pose.t))

Cal3_S2(fx, fy, s, u0, v0) == [fx |-> fx, fy |-> fy, s |-> s, u0 |-> u0, v0 |-> v0]
uncalibrate(K, pn) ==
    Point2(RAdd(RAdd(RMul(K.fx, pn[1]), RMul(K.s, pn[2])), K.u0),
           RAdd(RMul(K.fy, pn[2]), K.v0))

PinholeCamera(pose, K) == [pose |-> pose, K |-> K]

\* project: the cheirality fault is raised when the depth in the camera
\* frame is not positive
project(camera, pw) ==
    LET pc == transform_to(camera.pose, pw)
    IN  IF RLeq(pc[3], Zero)
          THEN [cheirality |-> TRUE, p |-> <<>>]
          ELSE [cheirality |-> FALSE,
                p |-> uncalibrate(camera.K,
                                  Point2(RDiv(pc[1], pc[3]), RDiv(pc[2], pc[3])))]

(***************************************************************************)
(* numericalDerivative11: central differences along each local degree of   *)
(* freedom, the argument being perturbed through its retraction.           *)
(***************************************************************************)
Delta == <<1, 2>>

dim(T) == IF T = "Pose3" THEN 6 ELSE 3

\* the tangent vector s * Delta * e_j of a 3-dimensional space
step(j, s) ==
    <<IF j = 1 THEN RMul(Num(s), Delta) ELSE Zero,
      IF j = 2 THEN RMul(Num(s), Delta) ELSE Zero,
      IF j = 3 THEN RMul(Num(s), Delta) ELSE Zero>>

\* x.retract(d) for d = s * Delta * e_j, s = 1 or -1: a pose turns about its
\* own axis j (j <= 3) or moves along it (j > 3), a vector adds d
retract(T, x, j, s) ==
    IF T = "Pose3"
      THEN IF j <= 3
             THEN Pose3(RotMul(x.R, RotAxis(j, s)), x.t)
             ELSE Pose3(x.R, Point3Add(x.t, Rotate(x.R, step(j - 3, s))))
      ELSE Point3Add(x, step(j, s))

RECURSIVE Flatten(_)
Flatten(ss) == IF ss = <<>> THEN <<>> ELSE Head(ss) \o Flatten(Tail(ss))

\* the central differences of the 2n perturbed evaluations runs, taken in
\* call order (+Delta then -Delta along each degree of freedom)
differences(runs, n) ==
    [threw |-> \E k \in 1..(2 * n) : runs[k].threw,
     H |-> IF \E k \in 1..(2 * n) : runs[k].threw THEN <<>>
           ELSE [j \in 1..n |->
                   <<RDiv(RSub(runs[2 * j - 1].value[1], runs[2 * j].value[1]),
                          RMul(Num(2), Delta)),
                     RDiv(RSub(runs[2 * j - 1].value[2], runs[2 * j].value[2]),
                          RMul(Num(2), Delta))>>] \o <<>>,
     lines |-> Flatten([k \in 1..(2 * n) |-> runs[k].lines]),
     evals |-> Flatten([k \in 1..(2 * n) |-> runs[k].evals])]

(***************************************************************************)
(* The factors.  A factor is [variant, keys, measured, K]; K_ is a shared  *)
(* pointer, modelled as an index into the heap calib of Cal3_S2 objects.   *)
(***************************************************************************)
NoMatrix == <<>>

InvDepthFactorVariant3a(poseKey, landmarkKey, measured, K) ==
    [variant |-> "3a", keys |-> <<poseKey, landmarkKey>>, measured |-> measured, K |-> K]

InvDepthFactorVariant3b(poseKey1, poseKey2, landmarkKey, measured, K) ==
    [variant |-> "3b", keys |-> <<poseKey1, poseKey2, landmarkKey>>,
     measured |-> measured, K |-> K]

key1(self) == self.keys[1]
key2(self) == self.keys[2]
key3(self) == self.keys[3]

ones2(x) == <<x, x>>

\* inverseDepthError3a without its catch clause: the fault leaves the call
inverseDepthError3a_nocatch(self, pose, landmark) ==
    LET theta == landmark[1]
        phi == landmark[2]
        rho == landmark[3]
        pose_P_landmark == Point3(RDiv(RMul(cos(phi), sin(theta)), rho),
                                  RDiv(sin(phi), rho),
                                  RDiv(RMul(cos(phi), cos(theta)), rho))
        world_P_landmark == transform_from(pose, pose_P_landmark)
        camera == PinholeCamera(pose, calib[self.K])
        projected == project(camera, world_P_landmark)
    IN  IF ~projected.cheirality
          THEN [threw |-> FALSE,
                value |-> Point2Sub(projected.p, self.measured),
                lines |-> <<>>,
                evals |-> <<<<pose, landmark>>>>]
          ELSE [threw |-> TRUE,
                value |-> <<>>,
                lines |-> <<[landmark |-> <<key1(self), key2(self)>>,
                             camera |-> key1(self)]>>,
                evals |-> <<<<pose, landmark>>>>]

\* inverseDepthError3a naming key2 as the camera, as the two-pose variant does
inverseDepthError3a_key2(self, pose, landmark) ==
    LET theta == landmark[1]
        phi == landmark[2]
        rho == landmark[3]
        pose_P_landmark == Point3(RDiv(RMul(cos(phi), sin(theta)), rho),
                                  RDiv(sin(phi), rho),
                                  RDiv(RMul(cos(phi), cos(theta)), rho))
        world_P_landmark == transform_from(pose, pose_P_landmark)
        camera == PinholeCamera(pose, calib[self.K])
        projected == project(camera, world_P_landmark)
    IN  IF ~projected.cheirality
          THEN [threw |-> FALSE,
                value |-> Point2Sub(projected.p, self.measured),
                lines |-> <<>>,
                evals |-> <<<<pose, landmark>>>>]
          ELSE [threw |-> FALSE,
                value |-> ones2(RMul(Num(2), calib[self.K].fx)),
                lines |-> <<[landmark |-> <<key1(self), key2(self)>>,
                             camera |-> key2(self)]>>,
                evals |-> <<<<pose, landmark>>>>]

\* inverseDepthError3a with the camera left at the default pose
inverseDepthError3a_camera0(self, pose, landmark) ==
    LET theta == landmark[1]
        phi == landmark[2]
        rho == landmark[3]
        pose_P_landmark == Point3(RDiv(RMul(cos(phi), sin(theta)), rho),
                                  RDiv(sin(phi), rho),
                                  RDiv(RMul(cos(phi), cos(theta)), rho))
        world_P_landmark == transform_from(pose, pose_P_landmark)
        camera == PinholeCamera(Pose3(RotI, <<Zero, Zero, Zero>>), calib[self.K])
        projected == project(camera, world_P_landmark)
    IN  IF ~projected.cheirality
          THEN [threw |-> FALSE,
                value |-> Point2Sub(projected.p, self.measured),
                lines |-> <<>>,
                evals |-> <<<<pose, landmark>>>>]
          ELSE [threw |-> FALSE,
                value |-> ones2(RMul(Num(2), calib[self.K].fx)),
                lines |-> <<[landmark |-> <<key1(self), key2(self)>>,
                             camera |-> key1(self)]>>,
                evals |-> <<<<pose, landmark>>>>]

inverseDepthError3a(self, pose, landmark) ==
    LET theta == landmark[1]
        phi == landmark[2]
        rho == landmark[3]
        pose_P_landmark == Point3(RDiv(RMul(cos(phi), sin(theta)), rho),
                                  RDiv(sin(phi), rho),
                                  RDiv(RMul(cos(phi), cos(theta)), rho))
        world_P_landmark == transform_from(pose, pose_P_landmark)
        camera == PinholeCamera(pose, calib[self.K])
        projected == project(camera, world_P_landmark)
    IN  IF ~projected.cheirality
          THEN [threw |-> FALSE,
                value |-> Point2Sub(projected.p, self.measured),
                lines |-> <<>>,
                evals |-> <<<<pose, landmark>>>>]
          ELSE [threw |-> FALSE,
                value |-> ones2(RMul(Num(2), calib[self.K].fx)),
                lines |-> <<[landmark |-> <<key1(self), key2(self)>>,
                             camera |-> key1(self)]>>,
                evals |-> <<<<pose, landmark>>>>]

\* inverseDepthError3b with the fallback sized by fy
inverseDepthError3b_fy(self, pose1, pose2, landmark) ==
    LET theta == landmark[1]
        phi == landmark[2]
        rho == landmark[3]
        pose1_P_landmark == Point3(RDiv(RMul(cos(phi), sin(theta)), rho),
                                   RDiv(sin(phi), rho),
                                   RDiv(RMul(cos(phi), cos(theta)), rho))
        world_P_landmark == transform_from(pose1, pose1_P_landmark)
        camera == PinholeCamera(pose2, calib[self.K])
        projected == project(camera, world_P_landmark)
    IN  IF ~projected.cheirality
          THEN [threw |-> FALSE,
                value |-> Point2Sub(projected.p, self.measured),
                lines |-> <<>>,
                evals |-> <<<<pose1, pose2, landmark>>>>]
          ELSE [threw |-> FALSE,
                value |-> ones2(RMul(Num(2), calib[self.K].fy)),
                lines |-> <<[landmark |-> <<key1(self), key3(self)>>,
                             camera |-> key2(self)]>>,
                evals |-> <<<<pose1, pose2, landmark>>>>]

\* inverseDepthError3b with the two poses in each other's role
inverseDepthError3b_swapped(self, pose1, pose2, landmark) ==
    LET theta == landmark[1]
        phi == landmark[2]
        rho == landmark[3]
        pose1_P_landmark == Point3(RDiv(RMul(cos(phi), sin(theta)), rho),
                                   RDiv(sin(phi), rho),
                                   RDiv(RMul(cos(phi), cos(theta)), rho))
        world_P_landmark == transform_from(pose2, pose1_P_landmark)
        camera == PinholeCamera(pose1, calib[self.K])
        projected == project(camera, world_P_landmark)
    IN  IF ~projected.cheirality
          THEN [threw |-> FALSE,
                value |-> Point2Sub(projected.p, self.measured),
                lines |-> <<>>,
                evals |-> <<<<pose1, pose2, landmark>>>>]
          ELSE [threw |-> FALSE,
                value |-> ones2(RMul(Num(2), calib[self.K].fx)),
                lines |-> <<[landmark |-> <<key1(self), key3(self)>>,
                             camera |-> key2(self)]>>,
                evals |-> <<<<pose1, pose2, landmark>>>>]

\* inverseDepthError3b with the camera built from pose1, as the one-pose variant does
inverseDepthError3b_onepose(self, pose1, pose2, landmark) ==
    LET theta == landmark[1]
        phi == landmark[2]
        rho == landmark[3]
        pose1_P_landmark == Point3(RDiv(RMul(cos(phi), sin(theta)), rho),
                                   RDiv(sin(phi), rho),
                                   RDiv(RMul(cos(phi), cos(theta)), rho))
        world_P_landmark == transform_from(pose1, pose1_P_landmark)
        camera == PinholeCamera(pose1, calib[self.K])
        projected == project(camera, world_P_landmark)
    IN  IF ~projected.cheirality
          THEN [threw |-> FALSE,
                value |-> Point2Sub(projected.p, self.measured),
                lines |-> <<>>,
                evals |-> <<<<pose1, pose2, landmark>>>>]
          ELSE [threw |-> FALSE,
                value |-> ones2(RMul(Num(2), calib[self.K].fx)),
                lines |-> <<[landmark |-> <<key1(self), key3(self)>>,
                             camera |-> key2(self)]>>,
                evals |-> <<<<pose1, pose2, landmark>>>>]

inverseDepthError3b(self, pose1, pose2, landmark) ==
    LET theta == landmark[1]
        phi == landmark[2]
        rho == landmark[3]
        pose1_P_landmark == Point3(RDiv(RMul(cos(phi), sin(theta)), rho),
                                   RDiv(sin(phi), rho),
                                   RDiv(RMul(cos(phi), cos(theta)), rho))
        world_P_landmark == transform_from(pose1, pose1_P_landmark)
        camera == PinholeCamera(pose2, calib[self.K])
        projected == project(camera, world_P_landmark)
    IN  IF ~projected.cheirality
          THEN [threw |-> FALSE,
                value |-> Point2Sub(projected.p, self.measured),
                lines |-> <<>>,
                evals |-> <<<<pose1, pose2, landmark>>>>]
          ELSE [threw |-> FALSE,
                value |-> ones2(RMul(Num(2), calib[self.K].fx)),
                lines |-> <<[landmark |-> <<key1(self), key3(self)>>,
                             camera |-> key2(self)]>>,
                evals |-> <<<<pose1, pose2, landmark>>>>]

\* boost::bind(&inverseDepthError, this, ...) with the placeholder _1 in
\* position slot of the arguments args
bind(self, slot, args) == [self |-> self, slot |-> slot, args |-> args]

\* the bound function h called with x
call(h, x) ==
    IF h.self.variant = "3a"
      THEN IF h.slot = 1
             THEN inverseDepthError3a(h.self, x, h.args[2])
             ELSE inverseDepthError3a(h.self, h.args[1], x)
      ELSE IF h.slot = 1
             THEN inverseDepthError3b(h.self, x, h.args[2], h.args[3])
             ELSE IF h.slot = 2
                    THEN inverseDepthError3b(h.self, h.args[1], x, h.args[3])
                    ELSE inverseDepthError3b(h.self, h.args[1], h.args[2], x)

\* h returns [threw, value, lines, evals]; the 2n perturbed evaluations are
\* made in the order +Delta, -Delta along each degree of freedom in turn
numericalDerivative11(h, x, T) ==
    differences([k \in 1..(2 * dim(T)) |->
                    call(h, retract(T, x, (k + 1) \div 2, IF k % 2 = 1 THEN 1 ELSE -1))]
                    \o <<>>,
                dim(T))

Skipped == [threw |-> FALSE, H |-> NoMatrix, lines |-> <<>>, evals |-> <<>>]

\* what a call of evaluateError leaves behind: ds are the numerical
\* derivatives in the order they are taken, e the final residual evaluation;
\* an exception leaving any of them leaves evaluateError
outcome(ds, e) ==
    [threw |-> e.threw \/ \E i \in 1..Len(ds) : ds[i].threw,
     value |-> e.value,
     H |-> [i \in 1..Len(ds) |-> ds[i].H] \o <<>>,
     lines |-> Flatten([i \in 1..Len(ds) |-> ds[i].lines]) \o e.lines,
     evals |-> Flatten([i \in 1..Len(ds) |-> ds[i].evals]) \o e.evals]

\* H1, H2 tell whether an output matrix was supplied
evaluateError3a(self, pose, landmark, H1, H2) ==
    outcome(<<IF H1
                THEN numericalDerivative11(
                         bind(self, 1, <<pose, landmark>>), pose, "Pose3")
                ELSE Skipped,
              IF H2
                THEN numericalDerivative11(
                         bind(self, 2, <<pose, landmark>>), landmark, "LieVector")
                ELSE Skipped>>,
            inverseDepthError3a(self, pose, landmark))

\* evaluateError3b taking every derivative, whatever was asked for
evaluateError3b_eager(self, pose1, pose2, landmark, H1, H2, H3) ==
    outcome(<<IF TRUE
                THEN numericalDerivative11(
                         bind(self, 1, <<pose1, pose2, landmark>>), pose1, "Pose3")
                ELSE Skipped,
              IF TRUE
                THEN numericalDerivative11(
                         bind(self, 2, <<pose1, pose2, landmark>>), pose2, "Pose3")
                ELSE Skipped,
              IF TRUE
                THEN numericalDerivative11(
                         bind(self, 3, <<pose1, pose2, landmark>>), landmark, "LieVector")
                ELSE Skipped>>,
            inverseDepthError3b(self, pose1, pose2, landmark))

evaluateError3b(self, pose1, pose2, landmark, H1, H2, H3) ==
    outcome(<<IF H1
                THEN numericalDerivative11(
                         bind(self, 1, <<pose1, pose2, landmark>>), pose1, "Pose3")
                ELSE Skipped,
              IF H2
                THEN numericalDerivative11(
                         bind(self, 2, <<pose1, pose2, landmark>>), pose2, "Pose3")
                ELSE Skipped,
              IF H3
                THEN numericalDerivative11(
                         bind(self, 3, <<pose1, pose2, landmark>>), landmark, "LieVector")
                ELSE Skipped>>,
            inverseDepthError3b(self, pose1, pose2, landmark))

\* Point2::equals and Cal3_S2::equals: every component within tol
Point2Equals(p, q, tol) ==
    /\ RLess(RAbs(RSub(p[1], q[1])), tol)
    /\ RLess(RAbs(RSub(p[2], q[2])), tol)

Cal3_S2Equals(K, L, tol) ==
    /\ RLess(RAbs(RSub(K.fx, L.fx)), tol)
    /\ RLess(RAbs(RSub(K.fy, L.fy)), tol)
    /\ RLess(RAbs(RSub(K.s, L.s)), tol)
    /\ RLess(RAbs(RSub(K.u0, L.u0)), tol)
    /\ RLess(RAbs(RSub(K.v0, L.v0)), tol)

\* Base::equals: the variable identifiers
BaseEquals(self, p, tol) == self.keys = p.keys

\* equals of the one-pose variant comparing no calibration
equals3a_nocal(self, p, tol) ==
    /\ p.variant = "3a"
    /\ BaseEquals(self, p, tol)
    /\ Point2Equals(self.measured, p.measured, tol)

\* the dynamic_cast to This succeeds on a factor of the same class
equals3a(self, p, tol) ==
    /\ p.variant = "3a"
    /\ BaseEquals(self, p, tol)
    /\ Point2Equals(self.measured, p.measured, tol)
    /\ Cal3_S2Equals(calib[self.K], calib[p.K], tol)

equals3b(self, p, tol) ==
    /\ p.variant = "3b"
    /\ BaseEquals(self, p, tol)
    /\ Point2Equals(self.measured, p.measured, tol)
    /\ Cal3_S2Equals(calib[self.K], calib[p.K], tol)

(***************************************************************************)
(* The caller: values of the variables, sequential calls.                  *)
(***************************************************************************)
MaxPending == 0

Identity == Pose3(RotI, <<Zero, Zero, Zero>>)
Along(z) == Pose3(RotI, <<Zero, Zero, Num(z)>>)
Turned == Pose3(RotAxis(2, 1), <<Num(1), Num(2), Zero>>)

PoseSet == {Identity, Along(-1), Along(2), Turned}
LandmarkSet ==
    {<<Zero, Zero, Num(1)>>, <<Zero, Zero, Num(-1)>>,
     <<<<1, 2>>, Zero, Num(1)>>, <<Zero, <<1, 2>>, Num(2)>>}
CalibrationSet ==
    {Cal3_S2(Num(1), Num(1), Zero, Zero, Zero),
     Cal3_S2(Num(2), Num(3), Num(1), Num(1), Num(2))}
MeasurementSet == {Point2(Zero, Zero), Point2(Num(1), Num(2))}

IsPoseKey(k) == k \in {"x1", "x2"}
ValueSet(k) == IF IsPoseKey(k) THEN PoseSet ELSE LandmarkSet

NoCall == [op |-> "none"]
Idle == <<>>
NoCmp == [this |-> 0]

Range(f) == {f[i] : i \in DOMAIN f}

\* the record of a call that has returned (or thrown) r
Returned(op, flags, args, r) ==
    [op |-> op, flags |-> flags, args |-> args, mark |-> Len(out),
     threw |-> r.threw, value |-> r.value, H |-> r.H, evals |-> r.evals]

WithoutH(r) == [threw |-> r.threw, value |-> r.value, H |-> <<>>, evals |-> r.evals]

Init ==
    /\ \E m \in MeasurementSet :
          factors \in {<<InvDepthFactorVariant3a("x1", "l1", m, 1)>>,
                       <<InvDepthFactorVariant3b("x1", "x2", "l1", m, 1)>>}
    /\ calib \in {<<K>> : K \in CalibrationSet}
    /\ built = [factors |-> factors, calib |-> calib]
    /\ values = [k \in Range(factors[1].keys) |->
                    IF IsPoseKey(k) THEN Identity ELSE <<Zero, Zero, Num(1)>>]
    /\ out = <<>>
    /\ last = NoCall
    /\ kept = NoCall
    /\ thr = Idle
    /\ cmp = NoCmp

\* the caller gives variable k the value v
Update(k, v) ==
    /\ last = NoCall
    /\ k \in DOMAIN values
    /\ v \in ValueSet(k)
    /\ values' = [values EXCEPT ![k] = v]
    /\ UNCHANGED <<factors, calib, built, out, last, kept, thr, cmp>>

CallInverseDepthError3a(i) ==
    /\ last = NoCall
    /\ Len(out) <= MaxPending
    /\ factors[i].variant = "3a"
    /\ LET self == factors[i]
           pose == values[key1(self)]
           landmark == values[key2(self)]
       IN  \E r \in {inverseDepthError3a(self, pose, landmark)} :
              /\ last' = Returned("inverseDepthError", <<>>, <<pose, landmark>>, WithoutH(r))
              /\ out' = out \o r.lines
    /\ UNCHANGED <<factors, calib, built, values, kept, thr, cmp>>

CallInverseDepthError3b(i) ==
    /\ last = NoCall
    /\ Len(out) <= MaxPending
    /\ factors[i].variant = "3b"
    /\ LET self == factors[i]
           pose1 == values[key1(self)]
           pose2 == values[key2(self)]
           landmark == values[key3(self)]
       IN  \E r \in {inverseDepthError3b(self, pose1, pose2, landmark)} :
              /\ last' = Returned("inverseDepthError", <<>>, <<pose1, pose2, landmark>>,
                                  WithoutH(r))
              /\ out' = out \o r.lines
    /\ UNCHANGED <<factors, calib, built, values, kept, thr, cmp>>

CallEvaluateError3a(i, H1, H2) ==
    /\ last = NoCall
    /\ Len(out) <= MaxPending
    /\ factors[i].variant = "3a"
    /\ LET self == factors[i]
           pose == values[key1(self)]
           landmark == values[key2(self)]
       IN  \E r \in {evaluateError3a(self, pose, landmark, H1, H2)} :
              /\ last' = Returned("evaluateError", <<H1, H2>>, <<pose, landmark>>, r)
              /\ out' = out \o r.lines
    /\ UNCHANGED <<factors, calib, built, values, kept, thr, cmp>>

\* evaluateError keeping the residual it computed in the factor
CallEvaluateError3b_caching(i, H1, H2, H3) ==
    /\ last = NoCall
    /\ Len(out) <= MaxPending
    /\ factors[i].variant = "3b"
    /\ LET self == factors[i]
           pose1 == values[key1(self)]
           pose2 == values[key2(self)]
           landmark == values[key3(self)]
       IN  \E r \in {evaluateError3b(self, pose1, pose2, landmark, H1, H2, H3)} :
              /\ last' = Returned("evaluateError", <<H1, H2, H3>>,
                                  <<pose1, pose2, landmark>>, r)
              /\ out' = out \o r.lines
              /\ factors' = [factors EXCEPT ![i].measured = r.value]
    /\ UNCHANGED <<calib, built, values, kept, thr, cmp>>

CallEvaluateError3b(i, H1, H2, H3) ==
    /\ last = NoCall
    /\ Len(out) <= MaxPending
    /\ factors[i].variant = "3b"
    /\ LET self == factors[i]
           pose1 == values[key1(self)]
           pose2 == values[key2(self)]
           landmark == values[key3(self)]
       IN  \E r \in {evaluateError3b(self, pose1, pose2, landmark, H1, H2, H3)} :
              /\ last' = Returned("evaluateError", <<H1, H2, H3>>,
                                  <<pose1, pose2, landmark>>, r)
              /\ out' = out \o r.lines
    /\ UNCHANGED <<factors, calib, built, values, kept, thr, cmp>>

\* the caller has used what the call returned
Consume ==
    /\ last # NoCall
    /\ last' = NoCall
    /\ UNCHANGED <<factors, calib, built, values, out, kept, thr, cmp>>

\* the reader of the console takes the lines written so far
Drain ==
    /\ last = NoCall
    /\ out # <<>>
    /\ out' = <<>>
    /\ UNCHANGED <<factors, calib, built, values, last, kept, thr, cmp>>

Next ==
    \/ \E k \in {"x1", "x2", "l1"} : \E v \in ValueSet(k) : Update(k, v)
    \/ \E i \in DOMAIN factors : CallInverseDepthError3a(i)
    \/ \E i \in DOMAIN factors : CallInverseDepthError3b(i)
    \/ \E i \in DOMAIN factors : \E H1, H2 \in BOOLEAN : CallEvaluateError3a(i, H1, H2)
    \/ \E i \in DOMAIN factors : \E H1, H2, H3 \in BOOLEAN :
          CallEvaluateError3b(i, H1, H2, H3)
    \/ Consume
    \/ Drain

Spec == Init /\ [][Next]_vars

(***************************************************************************)
(* What the claims say, stated from the constructor arguments and the      *)
(* arguments of the call alone.                                            *)
(***************************************************************************)
TheFactor == built.factors[1]
StoredK == built.calib[TheFactor.K]

\* the roles of the arguments <<pose, landmark>> or <<pose1, pose2, landmark>>
ReferencePose(a) == a[1]
ObservingPose(a) == IF Len(a) = 3 THEN a[2] ELSE a[1]
LandmarkOf(a) == a[Len(a)]
VarDim(a, i) == IF i = Len(a) THEN 3 ELSE 6

LocalPoint(l) ==
    <<RDiv(RMul(cos(l[2]), sin(l[1])), l[3]),
      RDiv(sin(l[2]), l[3]),
      RDiv(RMul(cos(l[2]), cos(l[1])), l[3])>>
WorldPoint(a) == transform_from(ReferencePose(a), LocalPoint(LandmarkOf(a)))
Projection(a) == project(PinholeCamera(ObservingPose(a), StoredK), WorldPoint(a))
Faults(a) == Projection(a).cheirality
Fallback == <<RMul(Num(2), StoredK.fx), RMul(Num(2), StoredK.fx)>>
NormalResidual(a) == Point2Sub(Projection(a).p, TheFactor.measured)
Residual(a) == IF Faults(a) THEN Fallback ELSE NormalResidual(a)

IsInverseDepthError == last.op = "inverseDepthError"
IsEvaluateError == last.op = "evaluateError"
Is3a == TheFactor.variant = "3a"
Is3b == TheFactor.variant = "3b"

\* C1: in both variants, when the projection raises the cheirality fault,
\* inverseDepthError does not throw and returns exactly (2*fx, 2*fx), fx of
\* the stored calibration, whatever the measurement, poses and landmark.
C1_FallbackOnCheirality ==
    (IsInverseDepthError /\ Faults(last.args)) =>
        /\ ~last.threw
        /\ last.value = <<RMul(Num(2), StoredK.fx), RMul(Num(2), StoredK.fx)>>

C1_Witness ==
    /\ IsInverseDepthError /\ Is3b /\ Faults(last.args)
    /\ StoredK.fx # StoredK.fy
    /\ TheFactor.measured # Point2(Zero, Zero)
    /\ ReferencePose(last.args) # ObservingPose(last.args)

\* C2: on the normal path the residual is project(world point) - measurement,
\* the world point being the local point moved to the world by the reference
\* pose (pose1, or the single pose) and the camera being built from the
\* observing pose (pose2, or the single pose); with identity poses, landmark
\* (0, 0, 1), calibration (1, 1, 0, 0, 0) and measurement (0, 0) the world
\* point is (0, 0, 1) and the residual is (0, 0).
IsScenario(a) ==
    /\ \A i \in 1..(Len(a) - 1) : a[i] = Pose3(RotI, <<Zero, Zero, Zero>>)
    /\ LandmarkOf(a) = <<Zero, Zero, Num(1)>>
    /\ StoredK = Cal3_S2(Num(1), Num(1), Zero, Zero, Zero)
    /\ TheFactor.measured = Point2(Zero, Zero)

C2_NormalResidual ==
    IsInverseDepthError =>
        /\ ~Faults(last.args) =>
              /\ ~last.threw
              /\ last.value =
                    Point2Sub(project(PinholeCamera(IF Is3b THEN last.args[2]
                                                            ELSE last.args[1], StoredK),
                                      transform_from(last.args[1],
                                                     LocalPoint(LandmarkOf(last.args)))).p,
                              TheFactor.measured)
        /\ IsScenario(last.args) =>
              /\ WorldPoint(last.args) = <<Zero, Zero, Num(1)>>
              /\ last.value = <<Zero, Zero>>

C2_Witness ==
    /\ IsInverseDepthError /\ Is3b /\ ~Faults(last.args)
    /\ ReferencePose(last.args) # ObservingPose(last.args)
    /\ last.value # <<Zero, Zero>>

C2_WitnessScenario == IsInverseDepthError /\ IsScenario(last.args)

\* C3 as stated: in the two-pose variant, with reference pose = identity,
\* observing pose = identity rotation and translation (0, 0, -1), and landmark
\* (0, 0, 1), the landmark is behind the observing camera and
\* inverseDepthError returns (2*fx, 2*fx).
IsBehindScenario(a, z) ==
    /\ Len(a) = 3
    /\ a[1] = Pose3(RotI, <<Zero, Zero, Zero>>)
    /\ a[2] = Pose3(RotI, <<Zero, Zero, Num(z)>>)
    /\ a[3] = <<Zero, Zero, Num(1)>>

C3_AsStated ==
    (IsInverseDepthError /\ Is3b /\ IsBehindScenario(last.args, -1)) =>
        /\ Faults(last.args)
        /\ last.value = Fallback

\* C3 amended: in that scenario the landmark is at depth 2 in front of the
\* observing camera (which sits at (0, 0, -1) and looks along +z), the normal
\* path is taken and inverseDepthError returns (u0 - mx, v0 - my); it is with
\* the observing translation (0, 0, 2) that the landmark is behind the
\* observing camera (depth -1) and inverseDepthError returns (2*fx, 2*fx).
C3_FrontAndBehind ==
    (IsInverseDepthError /\ Is3b) =>
        /\ IsBehindScenario(last.args, -1) =>
              /\ transform_to(last.args[2], WorldPoint(last.args)) = <<Zero, Zero, Num(2)>>
              /\ ~last.threw
              /\ last.value = <<RSub(StoredK.u0, TheFactor.measured[1]),
                                RSub(StoredK.v0, TheFactor.measured[2])>>
        /\ IsBehindScenario(last.args, 2) =>
              /\ transform_to(last.args[2], WorldPoint(last.args)) = <<Zero, Zero, Num(-1)>>
              /\ ~last.threw
              /\ last.value = <<RMul(Num(2), StoredK.fx), RMul(Num(2), StoredK.fx)>>

C3_Witness == IsInverseDepthError /\ Is3b /\ IsBehindScenario(last.args, -1)

\* the evaluations of a call: those of the requested variables' numerical
\* derivatives, variable by variable, then the one at the operating point
Requested(i) == last.flags[i]
Offset(i) ==
    LET before == {k \in 1..(i - 1) : Requested(k)}
    IN  IF before = {} THEN 0
        ELSE IF before = {1} THEN 2 * VarDim(last.args, 1)
        ELSE IF before = {2} THEN 2 * VarDim(last.args, 2)
        ELSE 2 * VarDim(last.args, 1) + 2 * VarDim(last.args, 2)
DiffersOnlyIn(a, b, i) == a # b /\ \A k \in 1..Len(a) : k # i => a[k] = b[k]
OwnEvals(i) == {n \in 1..Len(last.evals) : DiffersOnlyIn(last.evals[n], last.args, i)}
AtOperatingPoint == {n \in 1..Len(last.evals) : last.evals[n] = last.args}

\* C6: an unrequested Jacobian is skipped entirely (no perturbed evaluation of
\* its variable, its matrix not written); with no Jacobian requested there is
\* exactly one evaluation, at the operating point; a requested variable adds
\* only the 2 * dim evaluations of its own derivative, each perturbing that
\* variable alone, whatever else is requested.
C6_SkipUnrequested ==
    IsEvaluateError =>
        /\ \A i \in 1..Len(last.args) :
              /\ ~Requested(i) => (last.H[i] = NoMatrix /\ OwnEvals(i) = {})
              /\ Requested(i) =>
                    OwnEvals(i) = (Offset(i) + 1)..(Offset(i) + 2 * VarDim(last.args, i))
        /\ AtOperatingPoint = {Len(last.evals)}
        /\ \A n \in 1..Len(last.evals) :
              n \in AtOperatingPoint \/ \E i \in 1..Len(last.args) : n \in OwnEvals(i)
        /\ (\A i \in 1..Len(last.args) : ~Requested(i)) => last.evals = <<last.args>>

C6_Witness ==
    /\ IsEvaluateError /\ Is3b
    /\ Requested(1) /\ ~Requested(2) /\ Requested(3)
    /\ Len(last.evals) = 19

\* C7: evaluateError never throws: it returns a residual and fills every
\* requested Jacobian.  A fault in a perturbed evaluation is absorbed: the
\* fallback (2*fx, 2*fx) enters the central difference as data, and the
\* residual returned is the normal one when the operating point does not
\* fault.
ExpectedColumn(i, j) ==
    LET plus == Residual(last.evals[Offset(i) + 2 * j - 1])
        minus == Residual(last.evals[Offset(i) + 2 * j])
    IN  <<RDiv(RSub(plus[1], minus[1]), RMul(Num(2), Delta)),
          RDiv(RSub(plus[2], minus[2]), RMul(Num(2), Delta))>>

C7_NothingThrows ==
    IsEvaluateError =>
        /\ ~last.threw
        /\ \A i \in 1..Len(last.args) :
              Requested(i) =>
                  /\ Len(last.H[i]) = VarDim(last.args, i)
                  /\ \A j \in 1..VarDim(last.args, i) : last.H[i][j] = ExpectedColumn(i, j)
        /\ ~Faults(last.args) => last.value = NormalResidual(last.args)
        /\ Faults(last.args) => last.value = Fallback

C7_Witness ==
    /\ IsEvaluateError /\ Is3b
    /\ ~Faults(last.args)
    /\ Requested(2)
    /\ \E n \in OwnEvals(2) : Faults(last.evals[n])
    /\ \E n \in OwnEvals(2) : ~Faults(last.evals[n])
    /\ last.value = NormalResidual(last.args)
    /\ last.value # Fallback

\* C9: a call writes one diagnostic line for each of its residual evaluations
\* that hits the cheirality fault, in order, and nothing else; the line names
\* landmark [key1, key3] and camera key2 in the two-pose variant, landmark
\* [key1, key2] and camera key1 in the one-pose variant; the value returned
\* is the one C1 gives, line or no line.
Diagnostic ==
    IF Is3b
      THEN [landmark |-> <<TheFactor.keys[1], TheFactor.keys[3]>>,
            camera |-> TheFactor.keys[2]]
      ELSE [landmark |-> <<TheFactor.keys[1], TheFactor.keys[2]>>,
            camera |-> TheFactor.keys[1]]
FaultingEvals == {n \in 1..Len(last.evals) : Faults(last.evals[n])}

C9_DiagnosticIffDegenerate ==
    last # NoCall =>
        /\ Len(out) = last.mark + Cardinality(FaultingEvals)
        /\ \A n \in (last.mark + 1)..Len(out) : out[n] = Diagnostic
        /\ (FaultingEvals = {}) <=> (Len(out) = last.mark)
        /\ last.value = Residual(last.args)

C9_Witness ==
    /\ IsEvaluateError /\ Is3b
    /\ Cardinality(FaultingEvals) > 1
    /\ Cardinality(FaultingEvals) < Len(last.evals)
    /\ Len(out) = Cardinality(FaultingEvals)

\* C10: in the one-pose variant the point in the camera frame is the local
\* point, so the outcome does not depend on the pose: the degenerate path is
\* taken exactly when cos(phi)*cos(theta)/rho <= 0, the residual is the one
\* the identity pose gives, and the pose Jacobian is the zero matrix.
LocalDepth(l) == RDiv(RMul(cos(l[2]), cos(l[1])), l[3])
AtIdentity(a) == <<Pose3(RotI, <<Zero, Zero, Zero>>), a[2]>>

EqKeySet(variant) ==
    IF variant = "3a"
      THEN {<<"x1", "l1">>, <<"x2", "l1">>}
      ELSE {<<"x1", "x2", "l1">>, <<"x1", "x3", "l1">>}
EqMeasurementSet ==
    {Point2(Zero, Zero), Point2(<<1, 4>>, Zero), Point2(Zero, Num(1))}
EqCalibrationSet ==
    {Cal3_S2(Num(1), Num(1), Zero, Zero, Zero),
     Cal3_S2(Num(1), Num(1), Zero, <<1, 4>>, Zero),
     Cal3_S2(Num(2), Num(1), Zero, Zero, Zero)}
TolSet == {<<1, 2>>, Num(1)}

EqFactorSet ==
    {[variant |-> v, keys |-> ks, measured |-> m, K |-> K] :
        v \in {"3a", "3b"}, ks \in EqKeySet("3a") \cup EqKeySet("3b"),
        m \in EqMeasurementSet, K \in 1..2}

InitEq ==
    /\ factors \in {<<f, g>> : f \in EqFactorSet, g \in EqFactorSet}
    /\ \A i \in 1..2 : factors[i].keys \in EqKeySet(factors[i].variant)
    /\ calib \in {<<K, L>> : K \in EqCalibrationSet, L \in EqCalibrationSet}
    /\ built = [factors |-> factors, calib |-> calib]
    /\ values = <<>>
    /\ out = <<>>
    /\ last = NoCall
    /\ kept = NoCall
    /\ thr = Idle
    /\ cmp = NoCmp

Equals3a(i, j, tol) ==
    /\ factors[i].variant = "3a"
    /\ cmp' = [this |-> i, p |-> j, tol |-> tol,
               result |-> equals3a(factors[i], factors[j], tol)]
    /\ UNCHANGED <<factors, calib, built, values, out, last, kept, thr>>

Equals3b(i, j, tol) ==
    /\ factors[i].variant = "3b"
    /\ cmp' = [this |-> i, p |-> j, tol |-> tol,
               result |-> equals3b(factors[i], factors[j], tol)]
    /\ UNCHANGED <<factors, calib, built, values, out, last, kept, thr>>

NextEq ==
    \/ \E i, j \in DOMAIN factors : \E tol \in TolSet : Equals3a(i, j, tol)
    \/ \E i, j \in DOMAIN factors : \E tol \in TolSet : Equals3b(i, j, tol)

SpecEq == InitEq /\ [][NextEq]_vars

Within(x, y, tol) == RLess(RAbs(RSub(x, y)), tol)
Beyond(x, y, tol) == RLess(tol, RAbs(RSub(x, y)))
CalFields(K) == <<K.fx, K.fy, K.s, K.u0, K.v0>>

\* C4: factors of the same variant with equal identifiers, measurements
\* within tol and calibrations within tol (component by component) compare
\* equal; a different identifier, a measurement component beyond tol or a
\* calibration parameter beyond tol makes equals false; factors of different
\* variants never compare equal.
C4_Equality ==
    cmp # NoCmp =>
        LET a == built.factors[cmp.this]
            b == built.factors[cmp.p]
            Ka == CalFields(built.calib[a.K])
            Kb == CalFields(built.calib[b.K])
        IN  /\ ( /\ a.variant = b.variant
                 /\ a.keys = b.keys
                 /\ \A n \in 1..2 : Within(a.measured[n], b.measured[n], cmp.tol)
                 /\ \A n \in 1..5 : Within(Ka[n], Kb[n], cmp.tol) ) => cmp.result
            /\ a.variant # b.variant => ~cmp.result
            /\ a.keys # b.keys => ~cmp.result
            /\ (\E n \in 1..2 : Beyond(a.measured[n], b.measured[n], cmp.tol)) => ~cmp.result
            /\ (\E n \in 1..5 : Beyond(Ka[n], Kb[n], cmp.tol)) => ~cmp.result

C4_Witness ==
    /\ cmp # NoCmp
    /\ cmp.result
    /\ cmp.this # cmp.p
    /\ factors[cmp.this].variant = "3a"
    /\ factors[cmp.this].measured # factors[cmp.p].measured
    /\ factors[cmp.this].K # factors[cmp.p].K
    /\ calib[1] # calib[2]

(***************************************************************************)
(* A caller that keeps a copy of what one call returned and compares later *)
(* calls with it.                                                          *)
(***************************************************************************)
PurePoseSet == {Identity, Along(2)}
PureLandmarkSet == {<<Zero, Zero, Num(1)>>, <<<<1, 2>>, Zero, Num(1)>>}
PureValueSet(k) == IF IsPoseKey(k) THEN PurePoseSet ELSE PureLandmarkSet

InitPure ==
    /\ Init
    /\ factors[1].measured = Point2(Num(1), Num(2))
    /\ calib[1] = Cal3_S2(Num(2), Num(3), Num(1), Num(1), Num(2))

Keep ==
    /\ last # NoCall
    /\ kept = NoCall
    /\ kept' = last
    /\ last' = NoCall
    /\ UNCHANGED <<factors, calib, built, values, out, thr, cmp>>

NextPure ==
    \/ \E k \in {"x1", "x2", "l1"} : \E v \in PureValueSet(k) : Update(k, v)
    \/ \E i \in DOMAIN factors : CallInverseDepthError3a(i)
    \/ \E i \in DOMAIN factors : CallInverseDepthError3b(i)
    \/ \E i \in DOMAIN factors : \E H1, H2 \in BOOLEAN : CallEvaluateError3a(i, H1, H2)
    \/ \E i \in DOMAIN factors : \E H1, H2, H3 \in BOOLEAN :
          CallEvaluateError3b(i, H1, H2, H3)
    \/ Consume
    \/ Keep
    \/ Drain

SpecPure == InitPure /\ [][NextPure]_vars

ArgsNow == [n \in 1..Len(factors[1].keys) |-> values[factors[1].keys[n]]]
SameCall(c, d) == c.op = d.op /\ c.flags = d.flags /\ c.args = d.args

\* C5: evaluation changes neither the factor (measurement, calibration,
\* identifiers stay as constructed) nor the caller's values, and a call with
\* the inputs of an earlier call returns what that call returned, residual
\* and Jacobians, whatever was evaluated in between.
C5_Pure ==
    /\ factors = built.factors
    /\ calib = built.calib
    /\ last # NoCall => last.args = ArgsNow
    /\ (last # NoCall /\ kept # NoCall /\ SameCall(kept, last)) =>
          /\ last.threw = kept.threw
          /\ last.value = kept.value
          /\ last.H = kept.H

C5_Witness ==
    /\ last # NoCall /\ kept # NoCall /\ SameCall(kept, last)
    /\ Is3b /\ IsEvaluateError
    /\ Requested(1) /\ Requested(3)
    /\ ~Faults(last.args)
    /\ FaultingEvals # {}

(***************************************************************************)
(* Concurrent evaluations: each thread runs one evaluateError call, one    *)
(* residual evaluation after the other, each in two steps (lines 87-90 and *)
(* 92-100); the factors, the calibration they share and std::cout are      *)
(* common to the threads.                                                  *)
(***************************************************************************)
Threads == {"t1", "t2"}

\* the calls the threads make: <<flags, arguments>>, by variant
ConcCallSet(variant) ==
    IF variant = "3a"
      THEN {<<<<FALSE, FALSE>>, <<Identity, <<<<1, 2>>, Zero, Num(1)>>>>>>,
            <<<<FALSE, TRUE>>, <<Along(2), <<Zero, Zero, Num(1)>>>>>>}
      ELSE {<<<<FALSE, FALSE, FALSE>>, <<Identity, Along(2), <<Zero, Zero, Num(1)>>>>>>,
            <<<<FALSE, FALSE, TRUE>>, <<Identity, Identity, <<Zero, Zero, Num(2)>>>>>>}

IdleThread ==
    [pc |-> "idle", f |-> 0, flags |-> <<>>, args |-> <<>>, todo |-> <<>>,
     world |-> Point3(Zero, Zero, Zero), vals |-> <<>>, ret |-> <<>>]

\* the arguments of the residual evaluations of evaluateError, in call order
Perturbed(args, i) ==
    LET T == IF i = Len(args) THEN "LieVector" ELSE "Pose3"
    IN  [k \in 1..(2 * dim(T)) |->
            [args EXCEPT ![i] = retract(T, args[i], (k + 1) \div 2,
                                        IF k % 2 = 1 THEN 1 ELSE -1)]]
EvalPlan(args, flags) ==
    Flatten([i \in 1..Len(args) |-> IF flags[i] THEN Perturbed(args, i) ELSE <<>>])
        \o <<args>>

\* the thread whose stack holds the locals of a call made by thread t; making
\* the locals static would put them all in one place
local_static(t) == "t1"
local(t) == t

InitConc ==
    /\ factors = <<InvDepthFactorVariant3a("x1", "l1", Point2(Num(1), Num(2)), 1),
                   InvDepthFactorVariant3b("x1", "x2", "l1", Point2(Zero, Zero), 1)>>
    /\ calib \in {<<K>> : K \in CalibrationSet}
    /\ built = [factors |-> factors, calib |-> calib]
    /\ values = <<>>
    /\ out = <<>>
    /\ last = NoCall
    /\ kept = NoCall
    /\ thr = [t \in Threads |-> IdleThread]
    /\ cmp = NoCmp

\* thread t calls evaluateError of factor i
StartEvaluateError(t, i, flags, args) ==
    /\ thr[t].pc = "idle"
    /\ <<flags, args>> \in ConcCallSet(factors[i].variant)
    /\ thr' = [thr EXCEPT ![t] =
                  [pc |-> "transform", f |-> i, flags |-> flags, args |-> args,
                   todo |-> EvalPlan(args, flags), world |-> thr[t].world, vals |-> <<>>,
                   ret |-> <<>>]]
    /\ UNCHANGED <<factors, calib, built, values, out, last, kept, cmp>>

\* lines 87-90 (206-209): the landmark in world coordinates
Transform(t) ==
    /\ thr[t].pc = "transform"
    /\ LET a == Head(thr[t].todo)
           landmark == a[Len(a)]
           theta == landmark[1]
           phi == landmark[2]
           rho == landmark[3]
           pose_P_landmark == Point3(RDiv(RMul(cos(phi), sin(theta)), rho),
                                     RDiv(sin(phi), rho),
                                     RDiv(RMul(cos(phi), cos(theta)), rho))
       IN  thr' = [thr EXCEPT ![local(t)].world = transform_from(a[1], pose_P_landmark),
                              ![t].pc = "project"]
    /\ UNCHANGED <<factors, calib, built, values, out, last, kept, cmp>>

\* lines 92-100 (211-219): project, subtract the measurement; on the
\* cheirality fault write the diagnostic and take the fallback
ProjectStep(t) ==
    /\ thr[t].pc = "project"
    /\ LET self == factors[thr[t].f]
           a == Head(thr[t].todo)
           camera == PinholeCamera(IF self.variant = "3a" THEN a[1] ELSE a[2],
                                   calib[self.K])
           continue == IF Len(thr[t].todo) = 1 THEN "return" ELSE "transform"
       IN  \E projected \in {project(camera, thr[local(t)].world)} :
              IF ~projected.cheirality
                THEN /\ thr' = [thr EXCEPT
                                  ![t].vals = Append(@, Point2Sub(projected.p, self.measured)),
                                  ![t].todo = Tail(@),
                                  ![t].pc = continue]
                     /\ out' = out
                ELSE /\ thr' = [thr EXCEPT
                                  ![t].vals = Append(@, ones2(RMul(Num(2), calib[self.K].fx))),
                                  ![t].todo = Tail(@),
                                  ![t].pc = continue]
                     /\ out' = Append(out,
                                  IF self.variant = "3a"
                                    THEN [landmark |-> <<key1(self), key2(self)>>,
                                          camera |-> key1(self)]
                                    ELSE [landmark |-> <<key1(self), key3(self)>>,
                                          camera |-> key2(self)])
    /\ UNCHANGED <<factors, calib, built, values, last, kept, cmp>>

\* the residuals of the evaluations of variable i's derivative, as runs
RunsOf(vals, flags, args, i) ==
    LET before == {k \in 1..(i - 1) : flags[k]}
        off == IF before = {} THEN 0
               ELSE IF before = {1} THEN 2 * VarDim(args, 1)
               ELSE IF before = {2} THEN 2 * VarDim(args, 2)
               ELSE 2 * VarDim(args, 1) + 2 * VarDim(args, 2)
    IN  [k \in 1..(2 * VarDim(args, i)) |->
            [threw |-> FALSE, value |-> vals[off + k], lines |-> <<>>, evals |-> <<>>]]

\* lines 110-117 (230-240): the matrices asked for and the residual
Return(t) ==
    /\ thr[t].pc = "return"
    /\ thr' = [thr EXCEPT
                 ![t].ret =
                    [value |-> thr[t].vals[Len(thr[t].vals)],
                     H |-> [i \in 1..Len(thr[t].args) |->
                              IF thr[t].flags[i]
                                THEN differences(RunsOf(thr[t].vals, thr[t].flags,
                                                        thr[t].args, i),
                                                 VarDim(thr[t].args, i)).H
                                ELSE NoMatrix] \o <<>>],
                 ![t].pc = "done"]
    /\ UNCHANGED <<factors, calib, built, values, out, last, kept, cmp>>

NextConc ==
    \/ \E t \in Threads : \E i \in DOMAIN factors :
          \E c \in ConcCallSet(factors[i].variant) :
             StartEvaluateError(t, i, c[1], c[2])
    \/ \E t \in Threads : Transform(t)
    \/ \E t \in Threads : ProjectStep(t)
    \/ \E t \in Threads : Return(t)

SpecConc == InitConc /\ [][NextConc]_vars

\* what the call of thread t returns when it runs alone
Alone(t) ==
    LET self == built.factors[thr[t].f]
        a == thr[t].args
        H == thr[t].flags
    IN  IF self.variant = "3a"
          THEN evaluateError3a(self, a[1], a[2], H[1], H[2])
          ELSE evaluateError3b(self, a[1], a[2], a[3], H[1], H[2], H[3])
Done(t) == thr[t].pc = "done"
Count(seq, x) == Cardinality({n \in 1..Len(seq) : seq[n] = x})

====
